---- MODULE Spec2Model ----
(***************************************************************************)
(* Model of Player3D (src/client/src/app/libs/player/Player3D.js): the     *)
(* viewer's viewport geometry, its container, the render loop built from   *)
(* requestAnimationFrame + setTimeout, and the asynchronous model loads.   *)
(*                                                                         *)
(* JavaScript numbers are modelled as exact rationals <<n, d>> (d = 0 for  *)
(* NaN and the infinities), so that W / (16 / 9) is a real division.       *)
(***************************************************************************)
EXTENDS Integers, Sequences, FiniteSets, TLC

(* ------------------------------ bounds --------------------------------- *)

\* container widths offered to the constructor and to resize events: 0..MaxWidth
MaxWidth == 2
\* number of calls of the public methods and of DOM events explored in a run
MaxOps == 2
\* bounding boxes of loaded objects have minY, maxY in -YBound..YBound
YBound == 1

(* ------------------------- program constants --------------------------- *)

\* this.fps = 25
fps == 25
\* this.aspectRatio = 16 / 9
aspectNumerator == 16
aspectDenominator == 9
\* this.camera.position.z = 250
cameraDistance == 250

(* ----------------------- numbers (exact rationals) --------------------- *)

Abs(n) == IF n < 0 THEN 0 - n ELSE n

Sign(n) == IF n < 0 THEN 0 - 1 ELSE IF n > 0 THEN 1 ELSE 0

RECURSIVE GCD(_, _)
GCD(a, b) == IF b = 0 THEN a ELSE GCD(b, a % b)

\* the number n / d in lowest terms; 0/0 is NaN, n/0 is +-Infinity
Rat(n, d) ==
    IF d = 0 THEN <<Sign(n), 0>>
    ELSE LET g == GCD(Abs(n), Abs(d))
         IN  <<(Sign(d) * n) \div g, Abs(d) \div g>>

Num(n) == <<n, 1>>

NaN == <<0, 0>>

RatDiv(a, b) == Rat(a[1] * b[2], a[2] * b[1])

RatSub(a, b) == Rat(a[1] * b[2] - b[1] * a[2], a[2] * b[2])

RatAdd(a, b) == Rat(a[1] * b[2] + b[1] * a[2], a[2] * b[2])

RatMul(a, b) == Rat(a[1] * b[1], a[2] * b[2])

Half(a) == RatDiv(a, Num(2))

\* a field read by the code: either not assigned yet (undefined) or a number
Undefined == [defined |-> FALSE, value |-> NaN]

Defined(v) == [defined |-> TRUE, value |-> v]

aspectRatio == Rat(aspectNumerator, aspectDenominator)

Widths == 0..MaxWidth

\* pointer events carry clientX, clientY within the same range
ClientCoords == Widths

Boxes == {b \in (0 - YBound..YBound) \X (0 - YBound..YBound) : b[1] <= b[2]}

(* ------------------------------- state --------------------------------- *)

VARIABLES
    container,     \* the DOM element: offsetWidth, style (display, height), children,
                   \* and the number of foreign children detached from it
    player,        \* the Player3D fields width, height, center, mouse
    camera,        \* the PerspectiveCamera: aspect, position.z
    renderer,      \* the WebGLRenderer: the size of its output surface
    scene,         \* the children of the Scene, in insertion order
    control,       \* the TrackballControls: number of reset() calls received
    eventEmitter,  \* the EventEmitter: subscribers, emitted events, notifications
    platform,      \* pending requestAnimationFrame callbacks and pending timers
    loads,         \* one record per loadObj / loadMTL call
    frame,         \* the calls made by the most recent run of the render logic
    construction,  \* the steps the constructor took, in order
    ops            \* number of method calls and DOM events handled so far

vars == <<container, player, camera, renderer, scene, control, eventEmitter,
          platform, loads, frame, construction, ops>>

\* the whole state as one record, the `context` the handlers close over
World ==
    [container |-> container, player |-> player, camera |-> camera,
     renderer |-> renderer, scene |-> scene, control |-> control,
     eventEmitter |-> eventEmitter, platform |-> platform, loads |-> loads,
     frame |-> frame, construction |-> construction]

Commit(w) ==
    /\ container' = w.container
    /\ player' = w.player
    /\ camera' = w.camera
    /\ renderer' = w.renderer
    /\ scene' = w.scene
    /\ control' = w.control
    /\ eventEmitter' = w.eventEmitter
    /\ platform' = w.platform
    /\ loads' = w.loads
    /\ frame' = w.frame
    /\ construction' = w.construction

EventNames == {"loaded", "model-loaded"}

(* ---------------------------- EventEmitter ----------------------------- *)

\* emit(name): every subscriber of name is invoked, in registration order
emit(ee, name) ==
    [ee EXCEPT
        !.emitted = Append(@, name),
        !.notified = @ \o [k \in 1..Len(ee.subscribers[name]) |->
                              <<name, ee.subscribers[name][k]>>]]

\* events.on(name, callback)
subscribe(ee, name, callback) ==
    [ee EXCEPT !.subscribers[name] = Append(@, callback)]

SubscriptionCount(ee) ==
    Len(ee.subscribers["loaded"]) + Len(ee.subscribers["model-loaded"])

(* ----------------------- viewport: constructor ------------------------- *)

\* mutant of computeHeight: the width is multiplied by the aspect ratio
computeHeightMultiplied(width) == RatMul(width, aspectRatio)

\* let height = width / aspectRatio
computeHeight(width) == RatDiv(width, aspectRatio)

\* the value written to the container's style height: the text is built from
\* this.height before the freshly computed height is assigned to it
writtenStyleHeight(storedHeight, height) == storedHeight

\* { x: width / 2, y: height / 2 }
centerOf(width, height) == [x |-> Half(width), y |-> Half(height)]

\* mutant of aspectOf: the quotient is taken the wrong way round
aspectOfInverted(width, height) == RatDiv(height, width)

\* new PerspectiveCamera(45, width / height, 1, 2500) and camera.aspect = width / height
aspectOf(width, height) == RatDiv(width, height)

constructorOf(offsetWidth) ==
    LET width == Num(offsetWidth)
        height == computeHeight(width)
        center == centerOf(width, height)
    IN  [container |->
            [offsetWidth |-> offsetWidth,
             style |-> [display |-> "block",
                        height |-> writtenStyleHeight(Undefined, height)],
             children |-> <<"canvas">>,
             detached |-> 0],
         player |-> [width |-> width, height |-> height,
                     center |-> center, mouse |-> center],
         camera |-> [aspect |-> aspectOf(width, height),
                     positionZ |-> cameraDistance],
         renderer |-> [size |-> [width |-> width, height |-> height]],
         scene |-> <<[type |-> "AmbientLight"], [type |-> "PerspectiveCamera"]>>,
         control |-> [resets |-> 0],
         eventEmitter |->
            emit([subscribers |-> [e \in EventNames |-> <<>>],
                  emitted |-> <<>>, notified |-> <<>>], "loaded"),
         platform |-> [animationFrames |-> 0, timers |-> <<>>],
         loads |-> <<>>,
         frame |-> <<>>,
         construction |-> <<"new EventEmitter", "new PerspectiveCamera", "new Scene",
                            "new TrackballControls", "new WebGLRenderer",
                            "container.appendChild",
                            "addEventListener mousemove",
                            "addEventListener resize", "emit loaded">>]

(* ------------------------- viewport: handlers -------------------------- *)

\* the children of the container other than the renderer's output surface
ForeignChildren(c) == Cardinality({k \in 1..Len(c.children) : c.children[k] /= "canvas"})

\* code outside the player appends an element of its own to the container
appendForeignChild(w) == [w EXCEPT !.container.children = Append(@, "foreign")]

\* mutant of onElementResize: the surface is appended without clearing the container
onElementResizeAppending(w, offsetWidth) ==
    LET width == Num(offsetWidth)
        height == computeHeight(width)
    IN  [w EXCEPT
            !.container =
                [offsetWidth |-> offsetWidth,
                 style |-> [display |-> "block",
                            height |-> writtenStyleHeight(Defined(w.player.height), height)],
                 children |-> Append(w.container.children, "canvas"),
                 detached |-> w.container.detached],
            !.player = [@ EXCEPT !.width = width, !.height = height,
                                 !.center = centerOf(width, height)],
            !.renderer = [size |-> [width |-> width, height |-> height]],
            !.camera = [@ EXCEPT !.aspect = aspectOf(width, height)]]

\* mutant of onElementResize: the handler also cancels the pending frame callbacks
onElementResizeCancelling(w, offsetWidth) ==
    LET width == Num(offsetWidth)
        height == computeHeight(width)
    IN  [w EXCEPT
            !.container =
                [offsetWidth |-> offsetWidth,
                 style |-> [display |-> "block",
                            height |-> writtenStyleHeight(Defined(w.player.height), height)],
                 children |-> <<"canvas">>,
                 detached |-> w.container.detached + ForeignChildren(w.container)],
            !.player = [@ EXCEPT !.width = width, !.height = height,
                                 !.center = centerOf(width, height)],
            !.renderer = [size |-> [width |-> width, height |-> height]],
            !.camera = [@ EXCEPT !.aspect = aspectOf(width, height)],
            !.platform = [animationFrames |-> 0, timers |-> <<>>]]

\* the window 'resize' listener; offsetWidth is the container's width it reads
onElementResize(w, offsetWidth) ==
    LET width == Num(offsetWidth)
        height == computeHeight(width)
    IN  [w EXCEPT
            !.container =
                [offsetWidth |-> offsetWidth,
                 style |-> [display |-> "block",
                            height |-> writtenStyleHeight(Defined(w.player.height), height)],
                 children |-> <<"canvas">>,
                 detached |-> w.container.detached + ForeignChildren(w.container)],
            !.player = [@ EXCEPT !.width = width, !.height = height,
                                 !.center = centerOf(width, height)],
            !.renderer = [size |-> [width |-> width, height |-> height]],
            !.camera = [@ EXCEPT !.aspect = aspectOf(width, height)]]

\* the document 'mousemove' listener
onDocumentMouseMove(w, clientX, clientY) ==
    [w EXCEPT !.player.mouse =
        [x |-> Half(RatSub(Num(clientX), w.player.center.x)),
         y |-> Half(RatSub(Num(clientY), w.player.center.y))]]

\* this.container.style.display = 'inherit'
show(w) == [w EXCEPT !.container.style.display = "inherit"]

\* mutant of hide: hiding also detaches the output surface
hideDetaching(w) ==
    [w EXCEPT !.container.style.display = "none", !.container.children = <<>>]

\* this.container.style.display = 'none'
hide(w) == [w EXCEPT !.container.style.display = "none"]

(* ----------------------------- render loop ----------------------------- *)

\* the delay handed to setTimeout: 1000 / context.fps
frameDelay == Rat(1000, fps)

\* requestAnimationFrame(callback): one more pending animation-frame callback
requestAnimationFrame(p) == [p EXCEPT !.animationFrames = @ + 1]

\* mutant of runContext: the frame requests two successors
runContextTwoSuccessors(w) ==
    [w EXCEPT
        !.platform = requestAnimationFrame(requestAnimationFrame(@)),
        !.frame = <<"requestAnimationFrame", "requestAnimationFrame",
                    "control.update", "camera.lookAt", "renderer.render">>]

\* the function returned by _runContext: request the next frame, then render
runContext(w) ==
    [w EXCEPT
        !.platform = requestAnimationFrame(@),
        !.frame = <<"requestAnimationFrame", "control.update",
                    "camera.lookAt", "renderer.render">>]

\* start() { Player3D._runContext(this)(); }
start(w) == runContext(w)

\* mutant of onAnimationFrame: the callback sets no timer
onAnimationFrameNoTimer(w) ==
    [w EXCEPT !.platform.animationFrames = @ - 1]

\* the animation-frame callback: setTimeout(_runContext(context), 1000 / fps)
onAnimationFrame(w) ==
    [w EXCEPT !.platform = [animationFrames |-> @.animationFrames - 1,
                            timers |-> Append(@.timers, frameDelay)]]

\* the timer callback: the function returned by _runContext
onTimeout(w) ==
    runContext([w EXCEPT !.platform.timers = Tail(@)])

PendingCallbacks(p) == p.animationFrames + Len(p.timers)

(* -------------------------------- loads -------------------------------- *)

\* no callback was passed (manager.onError is undefined; MTLLoader.load gets none)
NoCallback == "undefined"

NoRequest == [loader |-> "none", onLoad |-> NoCallback, onError |-> NoCallback]

\* mutant of objRequest: the success callback is also passed as error callback
objRequestErrorAsLoad ==
    [loader |-> "OBJLoader", onLoad |-> "objOnLoad", onError |-> "objOnLoad"]

\* loader.load(url, function (object) {...}, manager.onProgress, manager.onError)
objRequest == [loader |-> "OBJLoader", onLoad |-> "objOnLoad", onError |-> NoCallback]

\* loader.load(mtlUrl, function (materials) {...})
mtlRequest == [loader |-> "MTLLoader", onLoad |-> "mtlOnLoad", onError |-> NoCallback]

\* what the caller of loadObj / loadMTL gets from the call: the method body has
\* no throw statement and no await, and its last statement is loader.load(...),
\* which only starts the request, so the method returns (undefined) before the
\* loader can report anything
returned == "returned"

\* object.position.y -= objectSize.y / 2, from position.y = 0
shiftY(minY, maxY) == RatSub(Num(0), Half(RatSub(Num(maxY), Num(minY))))

\* the loaded object after the shift: its geometry's y bounds and its position
shiftedObject(call, box) ==
    [type |-> "Group", call |-> call, minY |-> box[1], maxY |-> box[2],
     positionY |-> shiftY(box[1], box[2])]

\* loadObj(url): the geometry loader is started with the success callback
loadObj(w) ==
    [w EXCEPT !.loads = Append(@, [kind |-> "loadObj", request |-> objRequest,
                                   log |-> <<"OBJLoader.load">>,
                                   outcome |-> returned])]

\* mutant of loadMTL: the geometry load is started without waiting for the materials
loadMTLEager(w) ==
    [w EXCEPT !.loads = Append(@, [kind |-> "loadMTL", request |-> objRequest,
                                   log |-> <<"MTLLoader.load", "OBJLoader.load">>,
                                   outcome |-> returned])]

\* loadMTL(objUrl, mtlUrl): the material loader is started first
loadMTL(w) ==
    [w EXCEPT !.loads = Append(@, [kind |-> "loadMTL", request |-> mtlRequest,
                                   log |-> <<"MTLLoader.load">>,
                                   outcome |-> returned])]

\* mutant of objOnLoad: the callback emits `loaded` instead of `model-loaded`
objOnLoadEmitsLoaded(w, i, box) ==
    [w EXCEPT
        !.scene = Append(@, shiftedObject(i, box)),
        !.control.resets = @ + 1,
        !.eventEmitter = emit(@, "loaded"),
        !.loads[i].log = @ \o <<"object.position.y", "scene.add",
                                "control.reset", "emit">>]

\* mutant of objOnLoad: `model-loaded` is emitted before the object is inserted
objOnLoadEmitFirst(w, i, box) ==
    [w EXCEPT
        !.scene = Append(@, shiftedObject(i, box)),
        !.control.resets = @ + 1,
        !.eventEmitter = emit(@, "model-loaded"),
        !.loads[i].log = @ \o <<"emit", "object.position.y", "scene.add",
                                "control.reset">>]

\* mutant of objOnLoad: the new object takes the place of the one loaded before
objOnLoadReplacing(w, i, box) ==
    [w EXCEPT
        !.scene = Append(SelectSeq(@, LAMBDA n : n.type /= "Group"),
                         shiftedObject(i, box)),
        !.control.resets = @ + 1,
        !.eventEmitter = emit(@, "model-loaded"),
        !.loads[i].log = @ \o <<"object.position.y", "scene.add",
                                "control.reset", "emit">>]

\* mutant of objOnLoad: the object is inserted but `model-loaded` is not emitted
objOnLoadNoEmit(w, i, box) ==
    [w EXCEPT
        !.scene = Append(@, shiftedObject(i, box)),
        !.control.resets = @ + 1,
        !.loads[i].log = @ \o <<"object.position.y", "scene.add", "control.reset">>]

\* the success callback of the geometry load of call i, handed an object
\* whose bounding box spans box[1]..box[2] on the y axis
objOnLoad(w, i, box) ==
    [w EXCEPT
        !.scene = Append(@, shiftedObject(i, box)),
        !.control.resets = @ + 1,
        !.eventEmitter = emit(@, "model-loaded"),
        !.loads[i].log = @ \o <<"object.position.y", "scene.add",
                                "control.reset", "emit">>]

\* the success callback of the material load of call i
mtlOnLoad(w, i) ==
    [w EXCEPT
        !.loads[i].request = objRequest,
        !.loads[i].log = @ \o <<"materials.preload", "OBJLoader.load">>]

\* the callback named cb, invoked for call i
invoke(cb, w, i, box) ==
    CASE cb = "objOnLoad" -> objOnLoad(w, i, box)
      [] cb = "mtlOnLoad" -> mtlOnLoad(w, i)
      [] OTHER -> w

\* the loader of call i finishes: it drops the request and calls onLoad
loaderSucceeds(w, i, box) ==
    LET r == w.loads[i].request
    IN  invoke(r.onLoad,
               [w EXCEPT !.loads[i].request = NoRequest,
                         !.loads[i].log = Append(@, r.loader \o ".onLoad")],
               i, box)

\* the loader of call i fails: it drops the request and calls onError
loaderFails(w, i) ==
    LET r == w.loads[i].request
    IN  invoke(r.onError,
               [w EXCEPT !.loads[i].request = NoRequest,
                         !.loads[i].log = Append(@, r.loader \o ".onError")],
               i, <<0, 0>>)

(* ------------------------------- actions ------------------------------- *)

Init ==
    \E offsetWidth \in Widths :
        /\ container = constructorOf(offsetWidth).container
        /\ player = constructorOf(offsetWidth).player
        /\ camera = constructorOf(offsetWidth).camera
        /\ renderer = constructorOf(offsetWidth).renderer
        /\ scene = constructorOf(offsetWidth).scene
        /\ control = constructorOf(offsetWidth).control
        /\ eventEmitter = constructorOf(offsetWidth).eventEmitter
        /\ platform = constructorOf(offsetWidth).platform
        /\ loads = constructorOf(offsetWidth).loads
        /\ frame = constructorOf(offsetWidth).frame
        /\ construction = constructorOf(offsetWidth).construction
        /\ ops = 0

Start ==
    /\ ops < MaxOps
    /\ Commit(start(World))
    /\ ops' = ops + 1

AnimationFrame ==
    /\ platform.animationFrames > 0
    /\ Commit(onAnimationFrame(World))
    /\ UNCHANGED ops

Timeout ==
    /\ Len(platform.timers) > 0
    /\ Commit(onTimeout(World))
    /\ UNCHANGED ops

Resize ==
    \E offsetWidth \in Widths :
        /\ ops < MaxOps
        /\ Commit(onElementResize(World, offsetWidth))
        /\ ops' = ops + 1

MouseMove ==
    \E clientX \in ClientCoords, clientY \in ClientCoords :
        /\ ops < MaxOps
        /\ Commit(onDocumentMouseMove(World, clientX, clientY))
        /\ ops' = ops + 1

Show ==
    /\ ops < MaxOps
    /\ Commit(show(World))
    /\ ops' = ops + 1

Hide ==
    /\ ops < MaxOps
    /\ Commit(hide(World))
    /\ ops' = ops + 1

LoadObj ==
    /\ ops < MaxOps
    /\ Commit(loadObj(World))
    /\ ops' = ops + 1

LoadMTL ==
    /\ ops < MaxOps
    /\ Commit(loadMTL(World))
    /\ ops' = ops + 1

LoaderSucceeds ==
    \E i \in 1..Len(loads), box \in Boxes :
        /\ loads[i].request /= NoRequest
        /\ Commit(loaderSucceeds(World, i, box))
        /\ UNCHANGED ops

LoaderFails ==
    \E i \in 1..Len(loads) :
        /\ loads[i].request /= NoRequest
        /\ Commit(loaderFails(World, i))
        /\ UNCHANGED ops

Subscribe ==
    \E name \in EventNames :
        /\ ops < MaxOps
        /\ Commit([World EXCEPT !.eventEmitter =
                      subscribe(@, name, SubscriptionCount(eventEmitter) + 1)])
        /\ ops' = ops + 1

AppendChild ==
    /\ ops < MaxOps
    /\ Commit(appendForeignChild(World))
    /\ ops' = ops + 1

Next ==
    \/ Start
    \/ AnimationFrame
    \/ Timeout
    \/ Resize
    \/ MouseMove
    \/ Show
    \/ Hide
    \/ LoadObj
    \/ LoadMTL
    \/ LoaderSucceeds
    \/ LoaderFails
    \/ Subscribe
    \/ AppendChild

Spec == Init /\ [][Next]_vars

\* the platform runs every pending animation-frame callback and every due timer
FairSpec == Spec /\ WF_vars(AnimationFrame) /\ WF_vars(Timeout)

(* --------------------------- reading the state -------------------------- *)

Range(seq) == {seq[k] : k \in 1..Len(seq)}

Count(seq, x) == Cardinality({k \in 1..Len(seq) : seq[k] = x})

\* the first position of x in seq, 0 when absent
IndexOf(seq, x) ==
    LET hits == {k \in 1..Len(seq) : seq[k] = x}
    IN  IF hits = {} THEN 0 ELSE CHOOSE k \in hits : \A j \in hits : k <= j

LoadedNodes == {k \in 1..Len(scene) : scene[k].type = "Group"}

\* the vertical center of a loaded object's bounding box in the scene
CenterY(node) ==
    Half(RatAdd(RatAdd(Num(node.minY), node.positionY),
                RatAdd(Num(node.maxY), node.positionY)))

SucceededCalls == {i \in 1..Len(loads) : "OBJLoader.onLoad" \in Range(loads[i].log)}

LoaderCalls(ls) ==
    LET n[k \in 0..Len(ls)] ==
            IF k = 0 THEN 0
            ELSE n[k - 1] + Count(ls[k].log, "OBJLoader.load")
                          + Count(ls[k].log, "MTLLoader.load")
    IN  n[Len(ls)]

PendingRequests(ls) == {i \in 1..Len(ls) : ls[i].request /= NoRequest}

Started == frame /= <<>>

(* -------------------------------- claims -------------------------------- *)

\* C1: after construction and after every resize event, the stored height is
\* the stored width divided by the aspect ratio 16/9, the width being the
\* container's width measured at that construction / resize.
C1_HeightFromWidth ==
    /\ player.width = Num(container.offsetWidth)
    /\ player.height = RatDiv(player.width, Rat(16, 9))

\* C1 witness: a resize has recomputed the height for a positive width that
\* differs from the width the previous height was computed for.
C1_Witness ==
    /\ ops > 0
    /\ player.width = Num(2)
    /\ container.style.height.defined
    /\ container.style.height.value /= player.height

\* C2: whatever the number of start() calls, at most one self-rescheduling
\* chain (pending animation-frame callback or pending timer) exists.
C2_AtMostOneRenderLoop == PendingCallbacks(platform) <= 1

\* C3: after the success callback of a load has run, the vertical center of
\* the loaded object's bounding box is at y = 0.
C3_LoadedObjectCentered ==
    \A k \in LoadedNodes : CenterY(scene[k]) = Num(0)

\* C4: the number of loaded top-level nodes in the scene equals the number of
\* `model-loaded` emissions and the number of successfully completed load
\* calls, each such call owning exactly one node.
C4_OneNodeOneEventPerLoad ==
    /\ Cardinality(LoadedNodes) = Count(eventEmitter.emitted, "model-loaded")
    /\ Cardinality(LoadedNodes) = Cardinality(SucceededCalls)
    /\ \A i \in 1..Len(loads) :
           Cardinality({k \in LoadedNodes : scene[k].call = i})
               = IF i \in SucceededCalls THEN 1 ELSE 0

\* C4 witness: two load calls have both completed successfully.
C4_Witness == Cardinality(SucceededCalls) = 2 /\ Cardinality(LoadedNodes) = 2

\* C5: in every loadMTL call the geometry load is started only after the
\* material loader's success callback ran and the materials were preloaded;
\* when the material load failed, no geometry load is started, no node is
\* inserted and no `model-loaded` is emitted for that call.
C5_MaterialBeforeGeometry ==
    \A i \in 1..Len(loads) :
        loads[i].kind = "loadMTL" =>
            LET log == loads[i].log
            IN  /\ "OBJLoader.load" \in Range(log) =>
                    /\ IndexOf(log, "MTLLoader.onLoad") > 0
                    /\ IndexOf(log, "MTLLoader.onLoad") < IndexOf(log, "materials.preload")
                    /\ IndexOf(log, "materials.preload") < IndexOf(log, "OBJLoader.load")
                /\ ("MTLLoader.onLoad" \notin Range(log)) =>
                    /\ loads[i].request.loader /= "OBJLoader"
                    /\ "OBJLoader.load" \notin Range(log)
                    /\ "emit" \notin Range(log)
                    /\ \A k \in LoadedNodes : scene[k].call /= i

\* C5 witness: one loadMTL call whose material load failed beside one whose
\* geometry load has been started.
C5_Witness ==
    \E i, j \in 1..Len(loads) :
        /\ loads[i].kind = "loadMTL" /\ "MTLLoader.onError" \in Range(loads[i].log)
        /\ loads[j].kind = "loadMTL" /\ "OBJLoader.load" \in Range(loads[j].log)

\* C6: show() and hide() change only the container's display; the scene, the
\* camera, the renderer size, the stored width / height / center, the pointer
\* position, the subscriber registry and the pending render-loop callbacks
\* are left as they were.
C6_ShowHideOnlyVisibility ==
    [][(Show \/ Hide) =>
          /\ UNCHANGED <<player, camera, renderer, scene, control, eventEmitter,
                         platform, loads, frame, construction>>
          /\ container'.offsetWidth = container.offsetWidth
          /\ container'.children = container.children
          /\ container'.detached = container.detached
          /\ container'.style.height = container.style.height]_vars

\* C6 witness: hide() has run while a render loop was pending.
C6_Witness ==
    /\ container.style.display = "none"
    /\ PendingCallbacks(platform) > 0

\* C7: handling two consecutive resize events with the container width
\* unchanged between them yields the same state as handling one.
C7_ResizeIdempotent ==
    \A offsetWidth \in Widths :
        onElementResize(onElementResize(World, offsetWidth), offsetWidth)
            = onElementResize(World, offsetWidth)

\* C8: after construction and after every resize event the height applied to
\* the container's style equals the freshly computed height, the height the
\* renderer's output surface is sized to.
C8_ContainerHeightInSync ==
    /\ container.style.height = Defined(player.height)
    /\ renderer.size.height = player.height

\* C9: when a load fails, the scene is unchanged, the controls are not reset,
\* nothing is emitted, no exception reaches the caller of loadObj / loadMTL
\* (every call had returned to its caller before the failure was reported, and
\* the report changes the outcome of no call), and no loader is started again.
C9_FailureIsSilent ==
    [][LoaderFails =>
          /\ UNCHANGED <<scene, control, eventEmitter>>
          /\ Len(loads') = Len(loads)
          /\ \A i \in 1..Len(loads) :
                 /\ loads[i].outcome = returned
                 /\ loads'[i].outcome = returned
          /\ LoaderCalls(loads') = LoaderCalls(loads)
          /\ Cardinality(PendingRequests(loads'))
                 = Cardinality(PendingRequests(loads)) - 1]_vars

\* C9 witness: a loadObj call and the geometry stage of a loadMTL call have
\* failed, both calls having returned to their caller.
C9_Witness ==
    \E i, j \in 1..Len(loads) :
        /\ loads[i].kind = "loadObj" /\ "OBJLoader.onError" \in Range(loads[i].log)
        /\ loads[i].outcome = returned
        /\ loads[j].kind = "loadMTL" /\ "OBJLoader.onError" \in Range(loads[j].log)
        /\ loads[j].outcome = returned

\* C10: once start() has been called, a next-frame callback is pending in
\* every state, whatever operation runs, and under fair execution of the
\* animation-frame and timer callbacks a frame is rendered infinitely often.
C10_LoopNeverStops ==
    /\ [](Started => PendingCallbacks(platform) > 0)
    /\ ([](~Started) \/ []<><<Timeout>>_vars)

\* C10 witness: the loop was started, other operations have run, and the
\* loop is between its animation-frame callback and its timer.
C10_Witness ==
    /\ Started
    /\ ops = MaxOps
    /\ Len(platform.timers) > 0

\* the scenario of C11: a viewer constructed in a container of width 1600,
\* and the same viewer after a resize with the container at width 800
Constructed1600 == constructorOf(1600)

Resized800 == onElementResize(Constructed1600, 800)

\* C11: after construction and after every resize with a width > 0, the
\* camera's aspect equals stored width / stored height, which equals 16/9;
\* a width of 1600 gives height 900 and a following resize to 800 gives
\* height 450, the aspect staying 16/9.
C11_CameraAspect ==
    /\ player.width /= Num(0) =>
          /\ camera.aspect = RatDiv(player.width, player.height)
          /\ camera.aspect = Rat(16, 9)
    /\ Constructed1600.player.height = Num(900)
    /\ Constructed1600.camera.aspect = Rat(16, 9)
    /\ Resized800.player.height = Num(450)
    /\ Resized800.camera.aspect = Rat(16, 9)

\* C11 witness: a resize has changed the width to 1 from a different width.
C11_Witness ==
    /\ player.width = Num(1)
    /\ container.style.height.defined
    /\ container.style.height.value /= player.height
    /\ camera.aspect = RatDiv(Num(1), player.height)

\* C12: `loaded` is emitted exactly once, as the last step of construction
\* (after the camera, scene, controls and output surface exist and both
\* listeners are registered), and no later operation emits it again.
C12_LoadedOnce ==
    /\ Count(eventEmitter.emitted, "loaded") = 1
    /\ eventEmitter.emitted[1] = "loaded"
    /\ construction[Len(construction)] = "emit loaded"
    /\ Count(construction, "emit loaded") = 1
    /\ \A step \in {"new PerspectiveCamera", "new Scene", "new TrackballControls",
                    "new WebGLRenderer", "container.appendChild",
                    "addEventListener mousemove", "addEventListener resize"} :
           /\ IndexOf(construction, step) > 0
           /\ IndexOf(construction, step) < IndexOf(construction, "emit loaded")

\* C12 witness: the loop was started and a load has completed after construction.
C12_Witness ==
    /\ Started
    /\ LoadedNodes /= {}
    /\ Len(eventEmitter.emitted) = 2

\* C13: a resize event neither cancels nor duplicates a pending next-frame
\* callback: the resize handler leaves the pending animation-frame callbacks
\* and timers as they were, and once a timer is pending frames keep running.
C13_ResizeKeepsFrames ==
    /\ [][Resize => platform' = platform /\ frame' = frame]_vars
    /\ ([](Len(platform.timers) = 0) \/ []<><<Timeout>>_vars)

\* C13 witness: a resize has been handled and the loop's timer is pending.
C13_Witness ==
    /\ container.style.height.defined
    /\ Len(platform.timers) = 1
    /\ platform.animationFrames = 0

\* C14: within one successful load the object is shifted, then inserted into
\* the scene, then the controls are reset, then `model-loaded` is emitted;
\* so whenever `model-loaded` has been emitted for a call, that call's object
\* is in the scene and the controls have been reset for it.
C14_LoadStepOrder ==
    \A i \in 1..Len(loads) :
        LET log == loads[i].log
        IN  "emit" \in Range(log) =>
                /\ IndexOf(log, "OBJLoader.onLoad") > 0
                /\ IndexOf(log, "OBJLoader.onLoad") < IndexOf(log, "object.position.y")
                /\ IndexOf(log, "object.position.y") < IndexOf(log, "scene.add")
                /\ IndexOf(log, "scene.add") < IndexOf(log, "control.reset")
                /\ IndexOf(log, "control.reset") < IndexOf(log, "emit")
                /\ IndexOf(log, "emit") = Len(log)
                /\ \E k \in LoadedNodes : scene[k].call = i
                /\ control.resets >= Count(eventEmitter.emitted, "model-loaded")

\* C14 witness: a `model-loaded` subscriber has been notified of a load.
C14_Witness ==
    /\ \E i \in 1..Len(loads) : "emit" \in Range(loads[i].log)
    /\ \E k \in 1..Len(eventEmitter.notified) :
           eventEmitter.notified[k][1] = "model-loaded"

\* C15: overlapping loads are neither serialized nor deduplicated: a
\* completion appends its own node and leaves the nodes of other loads in
\* place, so once two calls have both completed, in whichever order, the
\* scene holds one node of each and `model-loaded` was emitted for each.
C15_ConcurrentLoadsIndependent ==
    /\ [](\A i, j \in SucceededCalls :
              i /= j =>
                  /\ \E k, l \in LoadedNodes :
                         k /= l /\ scene[k].call = i /\ scene[l].call = j
                  /\ Count(eventEmitter.emitted, "model-loaded") >= 2)
    /\ [][\/ /\ Len(scene') >= Len(scene)
             /\ SubSeq(scene', 1, Len(scene)) = scene
             /\ \A i \in PendingRequests(loads) :
                    i \in PendingRequests(loads') \/ loads'[i].log /= loads[i].log
          \/ ~LoaderSucceeds]_vars

\* C15 witness: two overlapping loads have both completed, the one issued
\* second inserting its node first.
C15_Witness ==
    \E k, l \in LoadedNodes : k < l /\ scene[k].call > scene[l].call

\* C16: after hide() the container stays hidden (display none) until the
\* next show(): only a show() step takes the container out of display none.
C16_HiddenUntilShow ==
    [][(container.style.display = "none" /\ container'.style.display /= "none")
          => Show]_vars

\* the work of one frame: one request of the next frame, one controls
\* update, one look-at of the scene origin, one render call
OneFrame ==
    <<"requestAnimationFrame", "control.update", "camera.lookAt", "renderer.render">>

\* C17: start() runs the first frame synchronously: one controls update, one
\* look-at and one render in that order, and exactly one next frame
\* requested. A later frame runs only from a timer of 1000 / fps = 40 ms that
\* a fired animation-frame callback has set, does the same work once and
\* requests exactly one successor.
C17_FrameUnitOfWork ==
    /\ [](Started => frame = OneFrame)
    /\ [](\A k \in 1..Len(platform.timers) : platform.timers[k] = Num(40))
    /\ [][Start =>
             /\ frame' = OneFrame
             /\ platform'.animationFrames = platform.animationFrames + 1
             /\ platform'.timers = platform.timers]_vars
    /\ [][Timeout =>
             /\ Len(platform.timers) > 0
             /\ frame' = OneFrame
             /\ platform'.animationFrames = platform.animationFrames + 1
             /\ platform'.timers = Tail(platform.timers)]_vars
    /\ [][Len(platform'.timers) > Len(platform.timers) =>
             /\ AnimationFrame
             /\ platform'.animationFrames = platform.animationFrames - 1
             /\ Len(platform'.timers) = Len(platform.timers) + 1]_vars
    /\ [][(frame' /= frame \/ platform'.animationFrames > platform.animationFrames)
             => (Start \/ Timeout)]_vars

\* C17 witness: start() has returned, its animation-frame callback has fired
\* and the 40 ms timer of the next frame is pending.
C17_Witness ==
    /\ Started
    /\ platform.animationFrames = 0
    /\ platform.timers = <<Num(40)>>
    /\ ops = 1

\* C18: after every resize event the container's children are exactly the
\* renderer's output surface: the handler removes every child it finds,
\* foreign ones included, and attaches the single surface again, sized to
\* the stored width and height.
C18_ResizeReattachesSurface ==
    [][Resize =>
          /\ container'.children = <<"canvas">>
          /\ container'.detached = container.detached + ForeignChildren(container)
          /\ renderer'.size = [width |-> player'.width, height |-> player'.height]]_vars

\* C18 witness: a resize has removed a child that other code had appended.
C18_Witness ==
    /\ container.detached > 0
    /\ container.children = <<"canvas">>
    /\ container.style.height.defined

\* C19: every callback subscribed to `loaded` through the events handle is
\* eventually invoked for the viewer's `loaded` emission.
C19_LoadedSubscriberNotified ==
    \A callback \in 1..MaxOps :
        [](callback \in Range(eventEmitter.subscribers["loaded"])
              => <>(<<"loaded", callback>> \in Range(eventEmitter.notified)))

====
